---- MODULE Spec2Model ----
(***************************************************************************)
(* Transfer progress tracking of elaunira.r2index: the sync                *)
(* _ProgressCallback (storage.py) and the _AsyncProgressCallback           *)
(* (async_storage.py), driven either directly or by upload_file /          *)
(* download_file of R2Storage and AsyncR2Storage.                          *)
(*                                                                         *)
(* time.monotonic() is modelled by an integer clock: every read returns    *)
(* the previous reading plus some d >= 0.  The epoch of the clock is       *)
(* arbitrary: the first reading of a behaviour is taken as 0.              *)
(***************************************************************************)
EXTENDS Integers, Sequences, FiniteSets, TLC

\* ---------------------------------------------------------------- bounds
MaxSignals == 2
MaxValue == 2
MaxClock == 2
MaxFinish == 2
MaxPairFinish == 1
NumThreads == 2
MaxThreadSignals == 2
MaxBytes == 3
MaxRuns == 2
MaxDigits == 7
\* CHUNK_SIZE (8 MiB), scaled down to bytes of the model
ChunkSize == 2

\* Python's None, for progress_interval and total_size
None == -1

SignalValues == 1..MaxValue
Intervals == {None, 0, 1}
TotalSizes == {None, 3}
FileSizes == {0, 2}
Threads == 1..NumThreads

VARIABLES
    tracker,    \* the _ProgressCallback / _AsyncProgressCallback object (cls = "none": not constructed)
    clock,      \* last value returned by time.monotonic()
    api,        \* who drives the tracker: "none", "direct", "upload_file", "download_file",
                \*                         "async_upload_file", "async_download_file"
    phase,      \* "new", "live" (direct use), "transferring", "returned", "raised"
    use_threads,\* R2TransferConfig.use_threads of the running sync transfer
    signals,    \* history: values handed to __call__, in order of call
    cb_calls,   \* history: values the user callback was invoked with
    log,        \* history: lines emitted through logger.info by the tracker
    finishes,   \* history: number of finish() calls
    thr,        \* worker threads of a threaded transfer, each inside or outside __call__
    xfer,       \* the running or last upload_file / download_file call: its overwrite
                \* argument, whether the local file existed, and as history the
                \* number of head_object and backend transfer calls, whether the
                \* size probe failed, and the error the call raised
    fmt,        \* a call of _format_bytes: its argument and the text returned
    pair,       \* two trackers constructed alike and driven side by side
    ck          \* the checksum computation: the file or stream read, the call in progress
                \* (its position, locals, hash objects, file handle) and, as history, the
                \* chunks read by the call and the results of the last two calls that
                \* returned

vars ==
    <<tracker, clock, api, phase, use_threads, signals, cb_calls, log, finishes, thr, ck,
      fmt, pair, xfer>>

RECURSIVE Sum(_)
Sum(s) == IF s = <<>> THEN 0 ELSE Head(s) + Sum(Tail(s))

Last(s) == s[Len(s)]

\* readings time.monotonic() may return next
Readings == clock..MaxClock

NoTracker ==
    [cls |-> "none", callback |-> FALSE, bytes_transferred |-> 0, total_size |-> None,
     progress_interval |-> None, operation |-> "", cumulative |-> FALSE,
     last_log_time |-> 0, start_time |-> 0]

\* no upload_file / download_file call was made
NoTransfer ==
    [overwrite |-> FALSE, exists |-> FALSE, probes |-> 0, probe_failed |-> FALSE,
     backend_calls |-> 0, error |-> ""]

\* _format_bytes was not called
NoFormat == [size |-> <<>>, text |-> <<>>]

\* no pair of trackers was constructed
NoPair == [kind |-> "none"]

\* a worker thread outside __call__; inside, pc is the statement it is about to run
IdleThread == [pc |-> "idle", bytes_amount |-> 0, reg |-> 0, now |-> 0]

\* ------------------------------------------------- _ProgressCallback (sync)

\* __init__: t0 and t1 are the two successive readings of time.monotonic()
ProgressCallback_init(callback, total_size, progress_interval, operation, t0, t1) ==
    [cls |-> "sync", callback |-> callback, bytes_transferred |-> 0,
     total_size |-> total_size, progress_interval |-> progress_interval,
     operation |-> operation, cumulative |-> FALSE,
     last_log_time |-> t0, start_time |-> t1]

\* variant: the signal replaces the counter instead of being added to it
ProgressCallback_add_replacing(self, bytes_amount) == bytes_amount

\* variant: a tracker that was finished ignores later signals
ProgressCallback_add_closed(self, bytes_amount) ==
    IF finishes > 0 THEN self.bytes_transferred ELSE self.bytes_transferred + bytes_amount

\* self._bytes_transferred += bytes_amount
ProgressCallback_add(self, bytes_amount) == self.bytes_transferred + bytes_amount

\* variant: the user callback is only invoked while logging is disabled
ProgressCallback_notify_unlogged(self, calls) ==
    IF self.callback /\ self.progress_interval = None
    THEN Append(calls, self.bytes_transferred) ELSE calls

\* if self._callback: self._callback(self._bytes_transferred)
ProgressCallback_notify(self, calls) ==
    IF self.callback THEN Append(calls, self.bytes_transferred) ELSE calls

\* variant: strict comparison of the elapsed time with the interval
ProgressCallback_due_strict(self, now) ==
    /\ self.progress_interval # None
    /\ now - self.last_log_time > self.progress_interval

\* the log throttle of __call__
ProgressCallback_due(self, now) ==
    /\ self.progress_interval # None
    /\ now - self.last_log_time >= self.progress_interval

\* variant: the total and percentage are shown for every known total, 0 included
ProgressCallback_log_progress_known(self, now) ==
    LET elapsed == now - self.start_time
        speed == IF elapsed > 0 THEN <<self.bytes_transferred, elapsed>> ELSE <<0, 1>>
    IN IF self.total_size # None
       THEN LET pct == IF self.total_size > 0
                       THEN <<self.bytes_transferred * 100, self.total_size>> ELSE <<0, 1>>
            IN [operation |-> self.operation, transferred |-> self.bytes_transferred,
                total |-> self.total_size, pct |-> pct,
                pct_text |-> (20 * pct[1] + pct[2]) \div (2 * pct[2]),
                speed |-> speed, at |-> now]
       ELSE [operation |-> self.operation, transferred |-> self.bytes_transferred,
             total |-> None, pct |-> <<>>, pct_text |-> None, speed |-> speed, at |-> now]

\* variant: the percentage is clamped to 100
ProgressCallback_log_progress_clamped(self, now) ==
    LET elapsed == now - self.start_time
        speed == IF elapsed > 0 THEN <<self.bytes_transferred, elapsed>> ELSE <<0, 1>>
    IN IF self.total_size # None /\ self.total_size > 0
       THEN LET pct == IF self.bytes_transferred > self.total_size THEN <<100, 1>>
                       ELSE <<self.bytes_transferred * 100, self.total_size>>
            IN [operation |-> self.operation, transferred |-> self.bytes_transferred,
                total |-> self.total_size, pct |-> pct,
                pct_text |-> (20 * pct[1] + pct[2]) \div (2 * pct[2]),
                speed |-> speed, at |-> now]
       ELSE [operation |-> self.operation, transferred |-> self.bytes_transferred,
             total |-> None, pct |-> <<>>, pct_text |-> None, speed |-> speed, at |-> now]

\* variant: the speed is divided by the elapsed time also when that is 0
ProgressCallback_log_progress_unguarded(self, now) ==
    LET elapsed == now - self.start_time
        speed == IF elapsed >= 0 THEN <<self.bytes_transferred, elapsed>> ELSE <<0, 1>>
    IN IF self.total_size # None /\ self.total_size > 0
       THEN LET pct == <<self.bytes_transferred * 100, self.total_size>>
            IN [operation |-> self.operation, transferred |-> self.bytes_transferred,
                total |-> self.total_size, pct |-> pct,
                pct_text |-> (20 * pct[1] + pct[2]) \div (2 * pct[2]),
                speed |-> speed, at |-> now]
       ELSE [operation |-> self.operation, transferred |-> self.bytes_transferred,
             total |-> None, pct |-> <<>>, pct_text |-> None, speed |-> speed, at |-> now]

\* "%.1f" of a non-negative fraction <<numerator, denominator>>: the number of
\* tenths nearest to it
FormatTenths(q) == (20 * q[1] + q[2]) \div (2 * q[2])

\* _log_progress: the line handed to logger.info.  speed and pct are kept as
\* exact fractions <<numerator, denominator>>; pct_text is the percentage as
\* printed, in tenths; a line of the form without total has total = None,
\* pct = <<>> and pct_text = None.
ProgressCallback_log_progress(self, now) ==
    LET elapsed == now - self.start_time
        speed == IF elapsed > 0 THEN <<self.bytes_transferred, elapsed>> ELSE <<0, 1>>
    IN IF self.total_size # None /\ self.total_size > 0
       THEN LET pct == <<self.bytes_transferred * 100, self.total_size>>
            IN [operation |-> self.operation, transferred |-> self.bytes_transferred,
                total |-> self.total_size, pct |-> pct, pct_text |-> FormatTenths(pct),
                speed |-> speed, at |-> now]
       ELSE [operation |-> self.operation, transferred |-> self.bytes_transferred,
             total |-> None, pct |-> <<>>, pct_text |-> None, speed |-> speed, at |-> now]

\* ------------------------------------------- _AsyncProgressCallback (async)

AsyncProgressCallback_init(callback, total_size, progress_interval, operation, cumulative, t0, t1) ==
    [cls |-> "async", callback |-> callback, bytes_transferred |-> 0,
     total_size |-> total_size, progress_interval |-> progress_interval,
     operation |-> operation, cumulative |-> cumulative,
     last_log_time |-> t0, start_time |-> t1]

\* variant: the signal always replaces the counter
AsyncProgressCallback_add_replacing(self, bytes_amount) == bytes_amount

\* variant: the cumulative flag is ignored
AsyncProgressCallback_add_always(self, bytes_amount) == self.bytes_transferred + bytes_amount

\* if self._cumulative: replace, else: accumulate
AsyncProgressCallback_add(self, bytes_amount) ==
    IF self.cumulative THEN bytes_amount ELSE self.bytes_transferred + bytes_amount

AsyncProgressCallback_notify(self, calls) ==
    IF self.callback THEN Append(calls, self.bytes_transferred) ELSE calls

\* variant: strict comparison of the elapsed time with the interval
AsyncProgressCallback_due_strict(self, now) ==
    /\ self.progress_interval # None
    /\ now - self.last_log_time > self.progress_interval

\* variant: the test for a disabled interval is missing
AsyncProgressCallback_due_unguarded(self, now) ==
    now - self.last_log_time >= self.progress_interval

AsyncProgressCallback_due(self, now) ==
    /\ self.progress_interval # None
    /\ now - self.last_log_time >= self.progress_interval

AsyncProgressCallback_log_progress(self, now) ==
    LET elapsed == now - self.start_time
        speed == IF elapsed > 0 THEN <<self.bytes_transferred, elapsed>> ELSE <<0, 1>>
    IN IF self.total_size # None /\ self.total_size > 0
       THEN LET pct == <<self.bytes_transferred * 100, self.total_size>>
            IN [operation |-> self.operation, transferred |-> self.bytes_transferred,
                total |-> self.total_size, pct |-> pct, pct_text |-> FormatTenths(pct),
                speed |-> speed, at |-> now]
       ELSE [operation |-> self.operation, transferred |-> self.bytes_transferred,
             total |-> None, pct |-> <<>>, pct_text |-> None, speed |-> speed, at |-> now]

\* ------------------------------------------------ checksums.py: hashlib

\* the four algorithms, in the order the read loop updates them
Algorithms == <<"md5", "sha1", "sha256", "sha512">>

RECURSIVE Concat(_)
\* the bytes of a sequence of chunks, joined
Concat(chunks) == IF chunks = <<>> THEN <<>> ELSE Head(chunks) \o Concat(Tail(chunks))

\* hashlib.md5() etc.: a hash object that was fed nothing; fed is the
\* sequence of chunks passed to update(), in order
hashlib_new(alg) == [alg |-> alg, fed |-> <<>>]

\* h.update(chunk)
hash_update(h, chunk) == [h EXCEPT !.fed = Append(@, chunk)]

\* h.hexdigest(): a digest is determined by the algorithm and by the bytes
\* fed, whatever the chunks they came in
hexdigest(h) == [alg |-> h.alg, of |-> Concat(h.fed)]

\* the digest of the algorithm for the byte sequence data
DigestOf(alg, data) == [alg |-> alg, of |-> data]

\* no ChecksumResult
NoResult == [none |-> TRUE]

\* the files and streams read: n distinct bytes, so that a lost, repeated or
\* reordered byte shows in the digest
Contents == {[i \in 1..n |-> i] : n \in 0..MaxBytes}

\* 10.0 s, the interval of the progress reports of the read loop, as one tick
\* of the clock
LogInterval == 1

\* no checksum call in progress, on a file or stream holding content
IdleChecksum(content) ==
    [api |-> "none", pc |-> "idle", content |-> content, pos |-> 0, chunk |-> <<>>,
     size |-> 0, md5 |-> hashlib_new("md5"), sha1 |-> hashlib_new("sha1"),
     sha256 |-> hashlib_new("sha256"), sha512 |-> hashlib_new("sha512"),
     total_size |-> None, last_log |-> 0, start |-> 0, reports |-> <<>>,
     handle |-> "none", opens |-> 0, reads |-> <<>>, result |-> NoResult, error |-> "",
     calls |-> 0, results |-> <<>>, caller |-> "none", delivered |-> NoResult]

\* ------------------------------------------------ storage.py: _format_bytes
\* A byte count is written in base 1024, least significant digit first, with
\* MaxDigits digits.  The counts taken are those a Python float holds exactly
\* (at most 50 significant bits), for which every `size /= 1024` is exact.

Kilo == 1024

Units == <<"B", "KB", "MB", "GB", "TB", "PB">>

DigitValues == {0, 1, 128, 512, 1023}

\* the positions of the non-zero digits of n
NonZero(n) == {i \in 1..Len(n) : n[i] # 0}

\* a float holds n exactly: its non-zero digits span at most five positions
Exact(n) == \A i, j \in NonZero(n) : i - j <= 4

Sizes == {n \in [1..MaxDigits -> DigitValues] : Exact(n)}

\* variant: the comparison with 1024 is not strict
Below1024_inclusive(n, k) ==
    /\ \A i \in (k + 3)..Len(n) : n[i] = 0
    /\ \/ k + 2 > Len(n)
       \/ n[k + 2] = 0
       \/ n[k + 2] = 1 /\ \A i \in 1..(k + 1) : n[i] = 0

\* `abs(size) < 1024` after k divisions by 1024, that is n < 1024^(k+1)
Below1024(n, k) == \A i \in (k + 2)..Len(n) : n[i] = 0

RECURSIVE Whole(_, _)
\* the integer part of n / 1024^(i-1)
Whole(n, i) == IF i > Len(n) THEN 0 ELSE n[i] + Kilo * Whole(n, i + 1)

RECURSIVE Scale(_, _, _, _)
\* 100 times the fractional part of n / 1024^k, digit by digit from the least
\* significant one: <<integer part, top digit of the remainder, whether the
\* rest of the remainder is non-zero>>
Scale(n, i, k, acc) ==
    IF i > k THEN acc
    ELSE LET t == 100 * n[i] + acc[1]
         IN Scale(n, i + 1, k, <<t \div Kilo, t % Kilo, acc[3] \/ acc[2] # 0>>)

\* f"{size:.2f} {unit}" for size = n / 1024^k: the nearest number of
\* hundredths, a tie going to the even one
TwoDecimals(n, k, unit) ==
    LET sc == Scale(n, 1, k, <<0, 0, FALSE>>)
        half == Kilo \div 2
        up == \/ sc[2] > half
              \/ sc[2] = half /\ sc[3]
              \/ sc[2] = half /\ ~sc[3] /\ sc[1] % 2 = 1
        h == IF up THEN sc[1] + 1 ELSE sc[1]
    IN IF h = 100
       THEN [whole |-> Whole(n, k + 1) + 1, hundredths |-> 0, unit |-> unit]
       ELSE [whole |-> Whole(n, k + 1), hundredths |-> h, unit |-> unit]

RECURSIVE FormatLoop(_, _)
\* the for loop over ("B", "KB", "MB", "GB", "TB"), entered for the unit of
\* index k + 1 with size = n / 1024^k, and the return after it
FormatLoop(n, k) ==
    IF k = 5 THEN TwoDecimals(n, 5, "PB")
    ELSE IF Below1024(n, k) THEN TwoDecimals(n, k, Units[k + 1])
    ELSE FormatLoop(n, k + 1)

\* _format_bytes(size)
FormatBytes(n) == FormatLoop(n, 0)

\* ------------------------------------------------------------------- Init

Init ==
    /\ tracker = NoTracker
    /\ clock = 0
    /\ api = "none"
    /\ phase = "new"
    /\ use_threads = FALSE
    /\ signals = <<>>
    /\ cb_calls = <<>>
    /\ log = <<>>
    /\ finishes = 0
    /\ thr = [i \in Threads |-> IdleThread]
    /\ xfer = NoTransfer
    /\ fmt = NoFormat
    /\ pair = NoPair
    /\ ck = IdleChecksum(<<>>)

\* --------------------------------------------- direct use of the trackers

\* _ProgressCallback(callback, total_size, progress_interval, operation)
NewProgressCallback ==
    /\ api = "none"
    /\ \E callback \in BOOLEAN, total_size \in TotalSizes, progress_interval \in Intervals :
         \E t0 \in {clock}, t1 \in Readings :
            /\ tracker' = ProgressCallback_init(callback, total_size, progress_interval,
                                                "Transferring", t0, t1)
            /\ clock' = t1
    /\ api' = "direct"
    /\ phase' = "live"
    /\ UNCHANGED <<use_threads, signals, cb_calls, log, finishes, thr, ck, fmt, pair, xfer>>

\* _AsyncProgressCallback(callback, total_size, progress_interval, operation, cumulative)
NewAsyncProgressCallback ==
    /\ api = "none"
    /\ \E callback \in BOOLEAN, total_size \in TotalSizes, progress_interval \in Intervals,
          cumulative \in BOOLEAN :
         \E t0 \in {clock}, t1 \in Readings :
            /\ tracker' = AsyncProgressCallback_init(callback, total_size, progress_interval,
                                                     "Transferring", cumulative, t0, t1)
            /\ clock' = t1
    /\ api' = "direct"
    /\ phase' = "live"
    /\ UNCHANGED <<use_threads, signals, cb_calls, log, finishes, thr, ck, fmt, pair, xfer>>

\* the tracker can receive a signal from a single caller
Receiving ==
    /\ tracker.cls # "none"
    /\ phase \in {"live", "transferring"}
    /\ ~use_threads
    /\ Len(signals) < MaxSignals

\* _ProgressCallback.__call__(bytes_amount), run without interruption
ProgressCallback_call ==
    /\ Receiving
    /\ tracker.cls = "sync"
    /\ \E bytes_amount \in SignalValues, now \in Readings :
         LET added == [tracker EXCEPT !.bytes_transferred = ProgressCallback_add(tracker, bytes_amount)]
             due == ProgressCallback_due(added, now)
         IN /\ cb_calls' = ProgressCallback_notify(added, cb_calls)
            /\ log' = IF due THEN Append(log, ProgressCallback_log_progress(added, now)) ELSE log
            /\ tracker' = IF due THEN [added EXCEPT !.last_log_time = now] ELSE added
            /\ clock' = IF added.progress_interval # None THEN now ELSE clock
            /\ signals' = Append(signals, bytes_amount)
    /\ UNCHANGED <<api, phase, use_threads, finishes, thr, ck, fmt, pair, xfer>>

\* _AsyncProgressCallback.__call__(bytes_amount)
AsyncProgressCallback_call ==
    /\ Receiving
    /\ tracker.cls = "async"
    /\ \E bytes_amount \in SignalValues, now \in Readings :
         LET added == [tracker EXCEPT !.bytes_transferred = AsyncProgressCallback_add(tracker, bytes_amount)]
             due == AsyncProgressCallback_due(added, now)
         IN /\ cb_calls' = AsyncProgressCallback_notify(added, cb_calls)
            /\ log' = IF due THEN Append(log, AsyncProgressCallback_log_progress(added, now)) ELSE log
            /\ tracker' = IF due THEN [added EXCEPT !.last_log_time = now] ELSE added
            /\ clock' = IF added.progress_interval # None THEN now ELSE clock
            /\ signals' = Append(signals, bytes_amount)
    /\ UNCHANGED <<api, phase, use_threads, finishes, thr, ck, fmt, pair, xfer>>

\* variant: finish() goes through the throttle
ProgressCallback_finish_throttled(self, now) ==
    IF ProgressCallback_due(self, now) THEN <<ProgressCallback_log_progress(self, now)>> ELSE <<>>

\* the line finish() emits at reading now
ProgressCallback_finish(self, now) == <<ProgressCallback_log_progress(self, now)>>

\* variant: finish() goes through the throttle
AsyncProgressCallback_finish_throttled(self, now) ==
    IF AsyncProgressCallback_due(self, now) THEN <<AsyncProgressCallback_log_progress(self, now)>>
    ELSE <<>>

\* the line finish() emits at reading now
AsyncProgressCallback_finish(self, now) == <<AsyncProgressCallback_log_progress(self, now)>>

FinishLines(self, now) ==
    IF self.cls = "sync" THEN ProgressCallback_finish(self, now)
    ELSE AsyncProgressCallback_finish(self, now)

\* finish() called by the owner of a directly used tracker
Finish ==
    /\ api = "direct"
    /\ finishes < MaxFinish
    /\ \E now \in Readings :
         /\ log' = log \o FinishLines(tracker, now)
         /\ clock' = now
    /\ finishes' = finishes + 1
    /\ UNCHANGED <<tracker, api, phase, use_threads, signals, cb_calls, thr, ck, fmt, pair, xfer>>

\* ------------------------------------------ R2Storage (sync, boto3) calls

\* the error an exception is wrapped in by the except clause of a transfer
ErrorOf(name) ==
    IF name \in {"upload_file", "async_upload_file"} THEN "UploadError" ELSE "DownloadError"

\* upload_file up to the backend call: existence check, tracker construction
UploadFileCall(threads) ==
    /\ api = "none"
    /\ \E exists \in BOOLEAN, progress_callback \in BOOLEAN, progress_interval \in Intervals,
          st_size \in FileSizes :
         \E t0 \in {clock}, t1 \in Readings :
            IF ~exists
            THEN /\ phase' = "raised"
                 /\ xfer' = [NoTransfer EXCEPT !.error = ErrorOf("upload_file")]
                 /\ UNCHANGED <<tracker, clock>>
            ELSE /\ phase' = "transferring"
                 /\ xfer' = [NoTransfer EXCEPT !.exists = TRUE, !.backend_calls = 1]
                 /\ IF progress_callback \/ progress_interval # None
                    THEN /\ tracker' = ProgressCallback_init(progress_callback, st_size,
                                                             progress_interval, "Uploading", t0, t1)
                         /\ clock' = t1
                    ELSE UNCHANGED <<tracker, clock>>
    /\ api' = "upload_file"
    /\ use_threads' = threads
    /\ UNCHANGED <<signals, cb_calls, log, finishes, thr, ck, fmt, pair>>

\* transfer_config.use_threads = False: the backend works in the calling thread
upload_file == UploadFileCall(FALSE)

\* variant: an existing destination is never downloaded again
SkipDownload_existing(overwrite, exists) == exists

\* `if not overwrite and file_path.exists()`: return without downloading
SkipDownload(overwrite, exists) == ~overwrite /\ exists

\* variant: a failed probe leaves a total size of 0
HeadObject_zero(head_ok, content_length) == IF head_ok THEN content_length ELSE 0

\* total_size after the size probe: head.get("ContentLength") when
\* head_object returned, None when it raised (`except Exception: pass`)
HeadObject(head_ok, content_length) == IF head_ok THEN content_length ELSE None

\* the record of a download_file call that reached the backend call
Downloading(overwrite, exists, tracked, head_ok) ==
    [NoTransfer EXCEPT !.overwrite = overwrite, !.exists = exists,
                       !.probes = IF tracked THEN 1 ELSE 0,
                       !.probe_failed = tracked /\ ~head_ok,
                       !.backend_calls = 1]

\* download_file up to the backend call: overwrite check, size probe, tracker construction
DownloadFileCall(threads) ==
    /\ api = "none"
    /\ \E overwrite \in BOOLEAN, exists \in BOOLEAN, progress_callback \in BOOLEAN,
          progress_interval \in Intervals, content_length \in TotalSizes, head_ok \in BOOLEAN :
         \E t0 \in {clock}, t1 \in Readings :
            LET tracked == progress_callback \/ progress_interval # None
            IN IF SkipDownload(overwrite, exists)
               THEN /\ phase' = "returned"
                    /\ xfer' = [NoTransfer EXCEPT !.overwrite = overwrite, !.exists = exists]
                    /\ UNCHANGED <<tracker, clock>>
               ELSE /\ phase' = "transferring"
                    /\ xfer' = Downloading(overwrite, exists, tracked, head_ok)
                    /\ IF tracked
                       THEN /\ tracker' = ProgressCallback_init(progress_callback,
                                             HeadObject(head_ok, content_length),
                                             progress_interval, "Downloading", t0, t1)
                            /\ clock' = t1
                       ELSE UNCHANGED <<tracker, clock>>
    /\ api' = "download_file"
    /\ use_threads' = threads
    /\ UNCHANGED <<signals, cb_calls, log, finishes, thr, ck, fmt, pair>>

download_file == DownloadFileCall(FALSE)

\* the backend call returned: if callback: callback.finish()
TransferReturns(name) ==
    /\ api = name
    /\ phase = "transferring"
    /\ \A i \in Threads : thr[i].pc = "idle"
    /\ IF tracker.cls # "none"
       THEN \E now \in Readings :
               /\ log' = log \o FinishLines(tracker, now)
               /\ clock' = now
               /\ finishes' = finishes + 1
       ELSE UNCHANGED <<log, clock, finishes>>
    /\ phase' = "returned"
    /\ UNCHANGED <<tracker, api, use_threads, signals, cb_calls, thr, ck, fmt, pair, xfer>>

\* variant: finish() runs in a finally clause
TransferRaises_finally(name) ==
    /\ api = name
    /\ phase = "transferring"
    /\ \A i \in Threads : thr[i].pc = "idle"
    /\ IF tracker.cls # "none"
       THEN \E now \in Readings :
               /\ log' = log \o FinishLines(tracker, now)
               /\ clock' = now
               /\ finishes' = finishes + 1
       ELSE UNCHANGED <<log, clock, finishes>>
    /\ phase' = "raised"
    /\ xfer' = [xfer EXCEPT !.error = ErrorOf(name)]
    /\ UNCHANGED <<tracker, api, use_threads, signals, cb_calls, thr, ck, fmt, pair>>

\* the backend call raised: re-raised as UploadError / DownloadError
TransferRaises(name) ==
    /\ api = name
    /\ phase = "transferring"
    /\ \A i \in Threads : thr[i].pc = "idle"
    /\ phase' = "raised"
    /\ xfer' = [xfer EXCEPT !.error = ErrorOf(name)]
    /\ UNCHANGED <<tracker, clock, api, use_threads, signals, cb_calls, log, finishes, thr,
                   ck, fmt, pair>>

upload_file_returns == TransferReturns("upload_file")
upload_file_raises == TransferRaises("upload_file")
download_file_returns == TransferReturns("download_file")
download_file_raises == TransferRaises("download_file")

\* ------------------------------------ AsyncR2Storage (aioboto3) calls

async_upload_file ==
    /\ api = "none"
    /\ \E exists \in BOOLEAN, progress_callback \in BOOLEAN, progress_interval \in Intervals,
          st_size \in FileSizes :
         \E t0 \in {clock}, t1 \in Readings :
            IF ~exists
            THEN /\ phase' = "raised"
                 /\ xfer' = [NoTransfer EXCEPT !.error = ErrorOf("async_upload_file")]
                 /\ UNCHANGED <<tracker, clock>>
            ELSE /\ phase' = "transferring"
                 /\ xfer' = [NoTransfer EXCEPT !.exists = TRUE, !.backend_calls = 1]
                 /\ IF progress_callback \/ progress_interval # None
                    THEN /\ tracker' = AsyncProgressCallback_init(progress_callback, st_size,
                                            progress_interval, "Uploading", FALSE, t0, t1)
                         /\ clock' = t1
                    ELSE UNCHANGED <<tracker, clock>>
    /\ api' = "async_upload_file"
    /\ UNCHANGED <<use_threads, signals, cb_calls, log, finishes, thr, ck, fmt, pair>>

async_download_file ==
    /\ api = "none"
    /\ \E overwrite \in BOOLEAN, exists \in BOOLEAN, progress_callback \in BOOLEAN,
          progress_interval \in Intervals, content_length \in TotalSizes, head_ok \in BOOLEAN :
         \E t0 \in {clock}, t1 \in Readings :
            LET tracked == progress_callback \/ progress_interval # None
            IN IF SkipDownload(overwrite, exists)
               THEN /\ phase' = "returned"
                    /\ xfer' = [NoTransfer EXCEPT !.overwrite = overwrite, !.exists = exists]
                    /\ UNCHANGED <<tracker, clock>>
               ELSE /\ phase' = "transferring"
                    /\ xfer' = Downloading(overwrite, exists, tracked, head_ok)
                    /\ IF tracked
                       THEN /\ tracker' = AsyncProgressCallback_init(progress_callback,
                                             HeadObject(head_ok, content_length),
                                             progress_interval, "Downloading", TRUE, t0, t1)
                            /\ clock' = t1
                       ELSE UNCHANGED <<tracker, clock>>
    /\ api' = "async_download_file"
    /\ UNCHANGED <<use_threads, signals, cb_calls, log, finishes, thr, ck, fmt, pair>>

async_upload_file_returns == TransferReturns("async_upload_file")
async_upload_file_raises == TransferRaises("async_upload_file")
async_download_file_returns == TransferReturns("async_download_file")
async_download_file_raises == TransferRaises("async_download_file")

Next ==
    \/ NewProgressCallback
    \/ NewAsyncProgressCallback
    \/ ProgressCallback_call
    \/ AsyncProgressCallback_call
    \/ Finish
    \/ upload_file
    \/ download_file
    \/ upload_file_returns
    \/ upload_file_raises
    \/ download_file_returns
    \/ download_file_raises
    \/ async_upload_file
    \/ async_download_file
    \/ async_upload_file_returns
    \/ async_upload_file_raises
    \/ async_download_file_returns
    \/ async_download_file_raises

Spec == Init /\ [][Next]_vars

\* ------------------- threaded transfers (R2TransferConfig.use_threads = True)
\* The backend's worker threads call the same _ProgressCallback object; the
\* statements of __call__ run with no lock, so each access to the object is a
\* step of its own and steps of different threads interleave.

\* use_threads defaults to True
upload_file_threads == UploadFileCall(TRUE)
download_file_threads == DownloadFileCall(TRUE)

\* thread i enters __call__(bytes_amount) and reads self._bytes_transferred
ThreadLoad(i) ==
    /\ phase = "transferring"
    /\ use_threads
    /\ tracker.cls = "sync"
    /\ thr[i].pc = "idle"
    /\ Len(signals) < MaxThreadSignals
    /\ \E bytes_amount \in SignalValues :
         /\ thr' = [thr EXCEPT ![i] = [pc |-> "store", bytes_amount |-> bytes_amount,
                                       reg |-> tracker.bytes_transferred, now |-> 0]]
         /\ signals' = Append(signals, bytes_amount)
    /\ UNCHANGED <<tracker, clock, api, phase, use_threads, cb_calls, log, finishes, ck, fmt, pair, xfer>>

\* thread i writes back the value it read plus its bytes_amount
ThreadStore(i) ==
    /\ thr[i].pc = "store"
    /\ tracker' = [tracker EXCEPT !.bytes_transferred =
                      ProgressCallback_add([tracker EXCEPT !.bytes_transferred = thr[i].reg],
                                           thr[i].bytes_amount)]
    /\ thr' = [thr EXCEPT ![i].pc = "notify"]
    /\ UNCHANGED <<clock, api, phase, use_threads, signals, cb_calls, log, finishes, ck, fmt, pair, xfer>>

\* thread i invokes the user callback with the current self._bytes_transferred
ThreadNotify(i) ==
    /\ thr[i].pc = "notify"
    /\ cb_calls' = ProgressCallback_notify(tracker, cb_calls)
    /\ thr' = [thr EXCEPT ![i].pc = IF tracker.progress_interval # None THEN "check" ELSE "idle"]
    /\ UNCHANGED <<tracker, clock, api, phase, use_threads, signals, log, finishes, ck, fmt, pair, xfer>>

\* thread i reads the clock and tests the throttle
ThreadCheck(i) ==
    /\ thr[i].pc = "check"
    /\ \E now \in Readings :
         /\ clock' = now
         /\ thr' = [thr EXCEPT ![i].pc = IF ProgressCallback_due(tracker, now) THEN "log" ELSE "idle",
                               ![i].now = IF ProgressCallback_due(tracker, now) THEN now ELSE 0]
    /\ UNCHANGED <<tracker, api, phase, use_threads, signals, cb_calls, log, finishes, ck, fmt, pair, xfer>>

\* thread i runs self._log_progress(now)
ThreadLog(i) ==
    /\ thr[i].pc = "log"
    /\ log' = Append(log, ProgressCallback_log_progress(tracker, thr[i].now))
    /\ thr' = [thr EXCEPT ![i].pc = "setlast"]
    /\ UNCHANGED <<tracker, clock, api, phase, use_threads, signals, cb_calls, finishes, ck, fmt, pair, xfer>>

\* thread i runs self._last_log_time = now and leaves __call__
ThreadSetLast(i) ==
    /\ thr[i].pc = "setlast"
    /\ tracker' = [tracker EXCEPT !.last_log_time = thr[i].now]
    /\ thr' = [thr EXCEPT ![i] = IdleThread]
    /\ UNCHANGED <<clock, api, phase, use_threads, signals, cb_calls, log, finishes, ck, fmt, pair, xfer>>

ThreadLoads == \E i \in Threads : ThreadLoad(i)
ThreadStores == \E i \in Threads : ThreadStore(i)
ThreadNotifies == \E i \in Threads : ThreadNotify(i)
ThreadChecks == \E i \in Threads : ThreadCheck(i)
ThreadLogs == \E i \in Threads : ThreadLog(i)
ThreadSetLasts == \E i \in Threads : ThreadSetLast(i)

NextThreads ==
    \/ upload_file_threads
    \/ download_file_threads
    \/ ThreadLoads
    \/ ThreadStores
    \/ ThreadNotifies
    \/ ThreadChecks
    \/ ThreadLogs
    \/ ThreadSetLasts
    \/ upload_file_returns
    \/ upload_file_raises
    \/ download_file_returns
    \/ download_file_raises

SpecThreads == Init /\ [][NextThreads]_vars

\* ------------------------------------------- checksums.py: the computation
\* One call runs at a time on the file or stream ck.content.  Each statement
\* of the read loop is a step; ck.pc names the statement about to run.

TrackerIdle ==
    UNCHANGED <<tracker, api, phase, use_threads, signals, cb_calls, log, finishes, thr,
                fmt, pair, xfer>>

Min(a, b) == IF a < b THEN a ELSE b

\* Python truth value of total_size: None and 0 are false
Truthy(total_size) == total_size # None /\ total_size # 0

\* a new call may start
CanCall ==
    /\ ck.pc \in {"idle", "returned", "raised"}
    /\ ck.caller = "none"
    /\ ck.calls < MaxRuns

\* the history kept over a new call: the last result returned
LastOf(results) == IF results = <<>> THEN <<>> ELSE <<results[Len(results)]>>

\* variant: the hash objects live across calls instead of being made per call
BeginCall_carrying(c, name) ==
    [c EXCEPT !.api = name, !.pos = 0, !.chunk = <<>>, !.size = 0,
              !.total_size = None, !.last_log = 0, !.start = 0, !.reports = <<>>,
              !.handle = "none", !.opens = 0, !.reads = <<>>,
              !.result = NoResult, !.error = "", !.calls = @ + 1,
              !.results = LastOf(@), !.delivered = NoResult]

\* the state of a call of name on entry: its own new hash objects, nothing
\* read, no handle, no result; the file or stream is read from its start
BeginCall(c, name) ==
    [c EXCEPT !.api = name, !.pos = 0, !.chunk = <<>>, !.size = 0,
              !.md5 = hashlib_new("md5"), !.sha1 = hashlib_new("sha1"),
              !.sha256 = hashlib_new("sha256"), !.sha512 = hashlib_new("sha512"),
              !.total_size = None, !.last_log = 0, !.start = 0, !.reports = <<>>,
              !.handle = "none", !.opens = 0, !.reads = <<>>,
              !.result = NoResult, !.error = "", !.calls = @ + 1,
              !.results = LastOf(@), !.delivered = NoResult]

\* compute_checksums(file_path) up to open(): stat() fails on a missing path
ComputeChecksums(c, exists) ==
    IF exists
    THEN [BeginCall(c, "compute_checksums") EXCEPT !.total_size = Len(c.content), !.pc = "open"]
    ELSE [BeginCall(c, "compute_checksums") EXCEPT !.error = "FileNotFoundError", !.pc = "raised"]

\* compute_checksums(file_path) called directly
compute_checksums ==
    /\ CanCall
    /\ \E exists \in BOOLEAN : ck' = ComputeChecksums(ck, exists)
    /\ UNCHANGED clock
    /\ TrackerIdle

\* compute_checksums_async(file_path): asyncio.to_thread(compute_checksums,
\* file_path) is awaited; the caller is suspended
compute_checksums_async ==
    /\ CanCall
    /\ ck' = [BeginCall(ck, "compute_checksums_async") EXCEPT
                  !.caller = "awaiting", !.pc = "to_thread"]
    /\ UNCHANGED clock
    /\ TrackerIdle

\* the worker thread starts compute_checksums(file_path), the one call the
\* coroutine makes
to_thread ==
    /\ ck.pc = "to_thread"
    /\ \E exists \in BOOLEAN : ck' = [ComputeChecksums(ck, exists) EXCEPT !.calls = ck.calls]
    /\ UNCHANGED clock
    /\ TrackerIdle

\* variant: the caller goes on without waiting for the worker thread
await_to_thread_early ==
    /\ ck.caller = "awaiting"
    /\ ck.pc # "to_thread"
    /\ ck' = [ck EXCEPT !.caller = "none",
                        !.delivered = [result |-> ck.result, error |-> ck.error]]
    /\ UNCHANGED clock
    /\ TrackerIdle

\* the worker thread has returned or raised: the await delivers its result or
\* re-raises its exception in the caller, which resumes
await_to_thread ==
    /\ ck.caller = "awaiting"
    /\ ck.pc \in {"returned", "raised"}
    /\ ck' = [ck EXCEPT !.caller = "none",
                        !.delivered = [result |-> ck.result, error |-> ck.error]]
    /\ UNCHANGED clock
    /\ TrackerIdle

\* compute_checksums_from_file_object(file_obj) up to the read loop
compute_checksums_from_file_object ==
    /\ CanCall
    /\ ck' = [BeginCall(ck, "compute_checksums_from_file_object") EXCEPT !.pc = "enter"]
    /\ UNCHANGED clock
    /\ TrackerIdle

\* open(file_path, "rb"): returns a handle or raises
open_file ==
    /\ ck.pc = "open"
    /\ \E ok \in BOOLEAN :
         ck' = IF ok
               THEN [ck EXCEPT !.handle = "open", !.opens = @ + 1, !.pc = "enter"]
               ELSE [ck EXCEPT !.error = "OSError", !.pc = "raised"]
    /\ UNCHANGED clock
    /\ TrackerIdle

\* _compute_from_file_object, before the loop: size = 0 and two clock readings
compute_from_file_object ==
    /\ ck.pc = "enter"
    /\ \E t0 \in Readings :
         \E t1 \in t0..MaxClock :
            /\ ck' = [ck EXCEPT !.size = 0, !.last_log = t0, !.start = t1, !.pc = "read"]
            /\ clock' = t1
    /\ TrackerIdle

\* variant: after an empty chunk the loop reads again
ReadReturns_continuing(c, chunk) ==
    [c EXCEPT !.chunk = chunk, !.pos = @ + Len(chunk), !.reads = Append(@, chunk),
              !.pc = IF chunk = <<>> THEN "read" ELSE "size"]

\* variant: an empty chunk does not end the loop
ReadReturns_unending(c, chunk) ==
    [c EXCEPT !.chunk = chunk, !.pos = @ + Len(chunk), !.reads = Append(@, chunk),
              !.pc = "size"]

\* file_obj.read(CHUNK_SIZE) returned chunk; `if not chunk: break`
ReadReturns(c, chunk) ==
    [c EXCEPT !.chunk = chunk, !.pos = @ + Len(chunk), !.reads = Append(@, chunk),
              !.pc = IF chunk = <<>> THEN "break" ELSE "size"]

\* variant: a failed read is taken as the end of the stream
ReadRaises_as_end(c) ==
    [c EXCEPT !.error = "OSError", !.chunk = <<>>, !.pc = "break"]

\* file_obj.read(CHUNK_SIZE) raised: the exception leaves the loop and the
\* function, through the with statement of compute_checksums if there is one
ReadRaises(c) ==
    [c EXCEPT !.error = "OSError", !.pc = IF c.handle = "open" THEN "close" ELSE "raised"]

\* chunk = file_obj.read(CHUNK_SIZE): up to CHUNK_SIZE of the bytes left (a
\* stream may return fewer than asked), nothing at the end, or an error
read_chunk ==
    /\ ck.pc = "read"
    /\ LET left == Len(ck.content) - ck.pos
       IN \/ /\ left > 0
             /\ \E n \in 1..Min(ChunkSize, left) :
                  ck' = ReadReturns(ck, SubSeq(ck.content, ck.pos + 1, ck.pos + n))
          \/ /\ left = 0
             /\ ck' = ReadReturns(ck, <<>>)
          \/ ck' = ReadRaises(ck)
    /\ UNCHANGED clock
    /\ TrackerIdle

\* variant: every chunk is counted as a full one
add_size_full ==
    /\ ck.pc = "size"
    /\ ck' = [ck EXCEPT !.size = @ + ChunkSize, !.pc = "md5"]
    /\ UNCHANGED clock
    /\ TrackerIdle

\* size += len(chunk)
add_size ==
    /\ ck.pc = "size"
    /\ ck' = [ck EXCEPT !.size = @ + Len(ck.chunk), !.pc = "md5"]
    /\ UNCHANGED clock
    /\ TrackerIdle

\* md5_hash.update(chunk)
update_md5 ==
    /\ ck.pc = "md5"
    /\ ck' = [ck EXCEPT !.md5 = hash_update(@, ck.chunk), !.pc = "sha1"]
    /\ UNCHANGED clock
    /\ TrackerIdle

\* variant: the SHA-1 object is fed the chunk twice
update_sha1_twice ==
    /\ ck.pc = "sha1"
    /\ ck' = [ck EXCEPT !.sha1 = hash_update(hash_update(@, ck.chunk), ck.chunk), !.pc = "sha256"]
    /\ UNCHANGED clock
    /\ TrackerIdle

\* sha1_hash.update(chunk)
update_sha1 ==
    /\ ck.pc = "sha1"
    /\ ck' = [ck EXCEPT !.sha1 = hash_update(@, ck.chunk), !.pc = "sha256"]
    /\ UNCHANGED clock
    /\ TrackerIdle

\* sha256_hash.update(chunk)
update_sha256 ==
    /\ ck.pc = "sha256"
    /\ ck' = [ck EXCEPT !.sha256 = hash_update(@, ck.chunk), !.pc = "sha512"]
    /\ UNCHANGED clock
    /\ TrackerIdle

\* sha512_hash.update(chunk)
update_sha512 ==
    /\ ck.pc = "sha512"
    /\ ck' = [ck EXCEPT !.sha512 = hash_update(@, ck.chunk), !.pc = "report"]
    /\ UNCHANGED clock
    /\ TrackerIdle

\* the progress line of the read loop, logged at reading now
ChecksumReport(c, now) ==
    LET elapsed == now - c.start
    IN [size |-> c.size, total |-> c.total_size, pct |-> <<c.size * 100, c.total_size>>,
        speed |-> IF elapsed > 0 THEN <<c.size, elapsed>> ELSE <<0, 1>>, at |-> now]

\* variant: the test of total_size is missing
ReportDue_untotalled(c, now) == now - c.last_log >= LogInterval

\* the report is due: `if total_size and now - last_log >= 10.0`
ReportDue(c, now) == Truthy(c.total_size) /\ now - c.last_log >= LogInterval

\* the end of a loop iteration: read the clock, report if due
report_progress ==
    /\ ck.pc = "report"
    /\ \E now \in Readings :
         /\ ck' = IF ReportDue(ck, now)
                  THEN [ck EXCEPT !.reports = Append(@, ChecksumReport(ck, now)),
                                  !.last_log = now, !.pc = "read"]
                  ELSE [ck EXCEPT !.pc = "read"]
         /\ clock' = now
    /\ TrackerIdle

\* `return size` after the break
return_size ==
    /\ ck.pc = "break"
    /\ ck' = [ck EXCEPT !.pc = IF ck.handle = "open" THEN "close" ELSE "result"]
    /\ UNCHANGED clock
    /\ TrackerIdle

\* variant: the handle is closed on the normal path only
CloseFile_on_return(c) ==
    [c EXCEPT !.handle = IF c.error = "" THEN "closed" ELSE @,
              !.pc = IF c.error = "" THEN "result" ELSE "raised"]

\* the with statement is left, by the return or by the exception
CloseFile(c) ==
    [c EXCEPT !.handle = "closed", !.pc = IF c.error = "" THEN "result" ELSE "raised"]

\* the end of `with open(file_path, "rb") as f`
close_file ==
    /\ ck.pc = "close"
    /\ ck' = CloseFile(ck)
    /\ UNCHANGED clock
    /\ TrackerIdle

\* ChecksumResult(md5=md5_hash.hexdigest(), ..., size=size)
ChecksumResult(c) ==
    [md5 |-> hexdigest(c.md5), sha1 |-> hexdigest(c.sha1),
     sha256 |-> hexdigest(c.sha256), sha512 |-> hexdigest(c.sha512), size |-> c.size]

\* the call returns its ChecksumResult
return_result ==
    /\ ck.pc = "result"
    /\ ck' = [ck EXCEPT !.result = ChecksumResult(ck),
                        !.results = Append(@, [api |-> ck.api, result |-> ChecksumResult(ck),
                                               reads |-> ck.reads]),
                        !.pc = "returned"]
    /\ UNCHANGED clock
    /\ TrackerIdle

InitChecksum ==
    /\ tracker = NoTracker
    /\ clock = 0
    /\ api = "none"
    /\ phase = "new"
    /\ use_threads = FALSE
    /\ signals = <<>>
    /\ cb_calls = <<>>
    /\ log = <<>>
    /\ finishes = 0
    /\ thr = [i \in Threads |-> IdleThread]
    /\ xfer = NoTransfer
    /\ fmt = NoFormat
    /\ pair = NoPair
    /\ \E content \in Contents : ck = IdleChecksum(content)

NextChecksum ==
    \/ compute_checksums
    \/ compute_checksums_from_file_object
    \/ compute_checksums_async
    \/ to_thread
    \/ await_to_thread
    \/ open_file
    \/ compute_from_file_object
    \/ read_chunk
    \/ add_size
    \/ update_md5
    \/ update_sha1
    \/ update_sha256
    \/ update_sha512
    \/ report_progress
    \/ return_size
    \/ close_file
    \/ return_result

SpecChecksum == InitChecksum /\ [][NextChecksum]_vars

\* a call that was entered runs on: the statement at ck.pc is executed
ChecksumStep ==
    \/ to_thread
    \/ await_to_thread
    \/ open_file
    \/ compute_from_file_object
    \/ read_chunk
    \/ add_size
    \/ update_md5
    \/ update_sha1
    \/ update_sha256
    \/ update_sha512
    \/ report_progress
    \/ return_size
    \/ close_file
    \/ return_result

SpecChecksumLive == InitChecksum /\ [][NextChecksum]_vars /\ WF_vars(ChecksumStep)

\* ------------------------------------------------- calls of _format_bytes

InitFormat ==
    /\ tracker = NoTracker
    /\ clock = 0
    /\ api = "none"
    /\ phase = "new"
    /\ use_threads = FALSE
    /\ signals = <<>>
    /\ cb_calls = <<>>
    /\ log = <<>>
    /\ finishes = 0
    /\ thr = [i \in Threads |-> IdleThread]
    /\ xfer = NoTransfer
    /\ pair = NoPair
    /\ ck = IdleChecksum(<<>>)
    /\ \E n \in Sizes : fmt = [size |-> n, text |-> <<>>]

\* _format_bytes(size) is called and returns its text
format_bytes ==
    /\ fmt.size # <<>>
    /\ fmt.text = <<>>
    /\ fmt' = [fmt EXCEPT !.text = FormatBytes(fmt.size)]
    /\ UNCHANGED <<tracker, clock, api, phase, use_threads, signals, cb_calls, log, finishes,
                   thr, ck, pair, xfer>>

NextFormat == format_bytes

SpecFormat == InitFormat /\ [][NextFormat]_vars

\* ------------------------------------------- two trackers side by side
\* pair.left and pair.right are two trackers with their own callback and log
\* histories, constructed with the same arguments and at the same clock
\* readings.  Kind "modes": the left one is incremental and receives the
\* deltas, the right one is cumulative and receives their running totals.
\* Kind "classes": a _ProgressCallback and an _AsyncProgressCallback with
\* cumulative = False receive the same signals.

PairDeltas == 0..MaxValue

\* __call__(bytes_amount) of the tracker of side, the clock reading now
Call(side, bytes_amount, now) ==
    LET self == side.tracker
        sync == self.cls = "sync"
        added == [self EXCEPT !.bytes_transferred =
                     IF sync THEN ProgressCallback_add(self, bytes_amount)
                     ELSE AsyncProgressCallback_add(self, bytes_amount)]
        due == IF sync THEN ProgressCallback_due(added, now)
               ELSE AsyncProgressCallback_due(added, now)
        line == IF sync THEN ProgressCallback_log_progress(added, now)
                ELSE AsyncProgressCallback_log_progress(added, now)
    IN [tracker |-> IF due THEN [added EXCEPT !.last_log_time = now] ELSE added,
        cb_calls |-> IF sync THEN ProgressCallback_notify(added, side.cb_calls)
                     ELSE AsyncProgressCallback_notify(added, side.cb_calls),
        log |-> IF due THEN Append(side.log, line) ELSE side.log]

\* a tracker just constructed, with its empty histories
NewSide(t) == [tracker |-> t, cb_calls |-> <<>>, log |-> <<>>]

\* an incremental tracker of either class and a cumulative one
NewModePair ==
    /\ pair.kind = "none"
    /\ \E callback \in BOOLEAN, total_size \in TotalSizes, progress_interval \in Intervals,
          cls \in {"sync", "async"} :
         \E t0 \in {clock}, t1 \in Readings :
            /\ pair' = [kind |-> "modes",
                        left |-> NewSide(IF cls = "sync"
                                    THEN ProgressCallback_init(callback, total_size,
                                             progress_interval, "Transferring", t0, t1)
                                    ELSE AsyncProgressCallback_init(callback, total_size,
                                             progress_interval, "Transferring", FALSE, t0, t1)),
                        right |-> NewSide(AsyncProgressCallback_init(callback, total_size,
                                             progress_interval, "Transferring", TRUE, t0, t1)),
                        fed |-> <<>>, finishes |-> 0]
            /\ clock' = t1
    /\ UNCHANGED <<tracker, api, phase, use_threads, signals, cb_calls, log, finishes, thr,
                   ck, fmt, xfer>>

\* a _ProgressCallback and an _AsyncProgressCallback(cumulative=False)
NewClassPair ==
    /\ pair.kind = "none"
    /\ \E callback \in BOOLEAN, total_size \in TotalSizes, progress_interval \in Intervals :
         \E t0 \in {clock}, t1 \in Readings :
            /\ pair' = [kind |-> "classes",
                        left |-> NewSide(ProgressCallback_init(callback, total_size,
                                             progress_interval, "Transferring", t0, t1)),
                        right |-> NewSide(AsyncProgressCallback_init(callback, total_size,
                                             progress_interval, "Transferring", FALSE, t0, t1)),
                        fed |-> <<>>, finishes |-> 0]
            /\ clock' = t1
    /\ UNCHANGED <<tracker, api, phase, use_threads, signals, cb_calls, log, finishes, thr,
                   ck, fmt, xfer>>

\* one signal to each tracker: the delta d to an incremental one, the running
\* total to the cumulative one; both read the clock at now
PairSignal ==
    /\ pair.kind # "none"
    /\ Len(pair.fed) < MaxSignals
    /\ \E d \in PairDeltas, now \in Readings :
         LET fed == Append(pair.fed, d)
         IN /\ pair' = [pair EXCEPT
                           !.left = Call(@, d, now),
                           !.right = Call(@, IF pair.kind = "modes" THEN Sum(fed) ELSE d, now),
                           !.fed = fed]
            /\ clock' = IF pair.left.tracker.progress_interval # None THEN now ELSE clock
    /\ UNCHANGED <<tracker, api, phase, use_threads, signals, cb_calls, log, finishes, thr,
                   ck, fmt, xfer>>

\* finish() on both trackers, at the clock reading now
PairFinish ==
    /\ pair.kind # "none"
    /\ pair.finishes < MaxPairFinish
    /\ \E now \in Readings :
         /\ pair' = [pair EXCEPT
                        !.left.log = @ \o FinishLines(pair.left.tracker, now),
                        !.right.log = @ \o FinishLines(pair.right.tracker, now),
                        !.finishes = @ + 1]
         /\ clock' = now
    /\ UNCHANGED <<tracker, api, phase, use_threads, signals, cb_calls, log, finishes, thr,
                   ck, fmt, xfer>>

NextPair ==
    \/ NewModePair
    \/ NewClassPair
    \/ PairSignal
    \/ PairFinish

SpecPair == Init /\ [][NextPair]_vars

\* ================================================================ claims

\* a step in which __call__ was entered with one more signal
SignalStep == Len(signals') = Len(signals) + 1

\* a step in which finish() ran
FinishStep == finishes' = finishes + 1

Constructed == tracker.cls # "none"

\* C1: in INCREMENTAL mode (the sync tracker, and the async one with
\* cumulative = False), after any sequence of signals delivered one at a
\* time, bytes_transferred is the sum of the signals.
C1_IncrementalSum ==
    (Constructed /\ ~tracker.cumulative) => tracker.bytes_transferred = Sum(signals)

C1_Witness ==
    /\ tracker.cls = "sync"
    /\ signals = <<1, 2>>
    /\ tracker.bytes_transferred = 3

\* C2: in CUMULATIVE mode, after any non-empty sequence of signals,
\* bytes_transferred is the value of the last signal, not the sum.
C2_CumulativeLast ==
    (tracker.cls = "async" /\ tracker.cumulative /\ signals # <<>>)
        => tracker.bytes_transferred = Last(signals)

C2_Witness ==
    /\ tracker.cls = "async"
    /\ tracker.cumulative
    /\ signals = <<1, 2>>
    /\ tracker.bytes_transferred = 2

\* C3: bytes_transferred never decreases, in both modes and for every
\* sequence of signal values the tracker accepts.
C3_NonDecreasing ==
    [][tracker'.bytes_transferred >= tracker.bytes_transferred]_vars

\* C4: when a user callback is present, every signal invokes it exactly once
\* with the new bytes_transferred, whether or not a log line is emitted; no
\* other step invokes it.
C4_CallbackEverySignal ==
    [][/\ (SignalStep /\ tracker.callback)
            => cb_calls' = Append(cb_calls, tracker'.bytes_transferred)
       /\ (~SignalStep \/ ~tracker.callback) => cb_calls' = cb_calls]_vars

C4_Witness ==
    /\ tracker.callback
    /\ tracker.progress_interval = 1
    /\ ~tracker.cumulative
    /\ signals = <<1, 2>>
    /\ cb_calls = <<1, 3>>
    /\ log = <<>>

\* C5: when several worker threads deliver incremental signals to the same
\* tracker, the final bytes_transferred is the sum of all delivered signals
\* in every interleaving (no lost update).
C5_NoLostUpdate ==
    (Constructed /\ use_threads /\ phase = "returned")
        => tracker.bytes_transferred = Sum(signals)

\* C6: with logging enabled, a signal arriving at reading now emits a line
\* iff now - last_log_time >= progress_interval; last_log_time becomes now
\* when a line is emitted and is unchanged otherwise.
C6_ThrottleRule ==
    [][(SignalStep /\ tracker.progress_interval # None) =>
         LET now == clock'
             due == now - tracker.last_log_time >= tracker.progress_interval
         IN /\ due => /\ Len(log') = Len(log) + 1
                      /\ SubSeq(log', 1, Len(log)) = log
                      /\ Last(log').at = now
                      /\ tracker'.last_log_time = now
            /\ ~due => /\ log' = log
                       /\ tracker'.last_log_time = tracker.last_log_time]_vars

C6_Witness ==
    /\ Constructed
    /\ tracker.progress_interval = 1
    /\ finishes = 0
    /\ Len(signals) = 2
    /\ Len(log) = 1
    /\ tracker.last_log_time = 1
    /\ clock = 1

\* C7: with progress_interval = 0 every signal emits exactly one log line,
\* whatever the timing.
C7_IntervalZeroLogsAll ==
    [][(SignalStep /\ tracker.progress_interval = 0) => Len(log') = Len(log) + 1]_vars

C7_Witness ==
    /\ Constructed
    /\ tracker.progress_interval = 0
    /\ finishes = 0
    /\ Len(signals) = 2
    /\ Len(log) = 2
    /\ log[1].at = log[2].at

\* C8: with progress_interval = None no signal emits a log line.
C8_NoIntervalNoSignalLog ==
    [][(SignalStep /\ tracker.progress_interval = None) => log' = log]_vars

C8_Witness ==
    /\ Constructed
    /\ tracker.progress_interval = None
    /\ Len(signals) = 2
    /\ log = <<>>

\* C9: each call of finish() emits exactly one log line, whatever the time
\* since the last emission and the interval, also with no prior signal.
C9_FinishEmitsOne ==
    [][FinishStep => /\ Len(log') = Len(log) + 1
                     /\ SubSeq(log', 1, Len(log)) = log]_vars

C9_Witness ==
    /\ tracker.progress_interval = 1
    /\ signals = <<>>
    /\ finishes = 2
    /\ Len(log) = 2
    /\ clock = tracker.last_log_time

\* C10: with progress_interval = None a tracker emits no log line over its
\* whole lifetime, finish() included.
C10_NoIntervalNoLog ==
    (Constructed /\ tracker.progress_interval = None) => log = <<>>

\* the lines of the log
Lines == 1..Len(log)

KnownTotal == tracker.total_size # None

Abs(n) == IF n < 0 THEN -n ELSE n

\* C11: finish() leaves the tracker as it was, and a signal that arrives
\* after finish() is processed like any other: it updates bytes_transferred
\* per the mode, invokes the user callback, applies the throttle rule, and
\* raises nothing.
C11_SignalAfterFinish ==
    [][/\ FinishStep => /\ tracker' = tracker
                        /\ cb_calls' = cb_calls
                        /\ signals' = signals
       /\ (SignalStep /\ finishes > 0) =>
            /\ tracker'.bytes_transferred =
                  IF tracker.cumulative THEN Last(signals')
                  ELSE tracker.bytes_transferred + Last(signals')
            /\ tracker.callback => cb_calls' = Append(cb_calls, tracker'.bytes_transferred)
            /\ tracker.progress_interval # None =>
                  ((Len(log') = Len(log) + 1)
                      <=> (clock' - tracker.last_log_time >= tracker.progress_interval))
            /\ tracker.progress_interval = None => log' = log
            /\ phase' = phase]_vars

\* the first line came from finish() (nothing transferred yet), the second
\* from a later signal
C11_Witness ==
    /\ api = "direct"
    /\ finishes = 1
    /\ Len(signals) = 1
    /\ Len(log) = 2
    /\ log[1].transferred = 0
    /\ log[2].transferred = signals[1]
    /\ cb_calls = signals

\* C12 as claimed: a log line carries the total and a percentage exactly when
\* the total size is known, 0 included.
C12_TotalWhenKnown ==
    \A i \in Lines : (log[i].total # None /\ log[i].pct # <<>>) <=> KnownTotal

\* C12 as amended: a log line carries the total and a percentage exactly when
\* the total size is known and positive; when it is unknown or 0 the line
\* carries neither.
C12_TotalWhenPositive ==
    \A i \in Lines :
        IF KnownTotal /\ tracker.total_size > 0
        THEN log[i].total = tracker.total_size /\ log[i].pct # <<>> /\ log[i].pct_text # None
        ELSE log[i].total = None /\ log[i].pct = <<>> /\ log[i].pct_text = None

C12_Witness ==
    /\ api = "upload_file"
    /\ tracker.total_size = 0
    /\ Len(log) = 2
    /\ log[2].total = None

\* C13: with a known positive total, the percentage printed is
\* bytes_transferred * 100 / total_size to the nearest tenth, unclamped.
C13_Percentage ==
    \A i \in Lines :
        log[i].total # None =>
            /\ log[i].total = tracker.total_size
            /\ log[i].total > 0
            /\ 2 * Abs(log[i].pct_text * log[i].total - log[i].transferred * 1000) <= log[i].total

\* 50.0% at 1 of 2 bytes, then 150.0% at 3 of 2 bytes
C13_Witness ==
    /\ Len(log) = 2
    /\ log[1].total = 2 /\ log[1].transferred = 1 /\ log[1].pct_text = 500
    /\ log[2].total = 2 /\ log[2].transferred = 3 /\ log[2].pct_text = 1500

\* C14: the speed of a log line is bytes_transferred over the time elapsed
\* since start_time, 0 when that time is 0, and no line divides by zero.
C14_Speed ==
    \A i \in Lines :
        LET elapsed == log[i].at - tracker.start_time
        IN /\ elapsed >= 0
           /\ log[i].speed[2] # 0
           /\ elapsed = 0 => log[i].speed[1] = 0
           /\ elapsed > 0 => log[i].speed[1] * elapsed = log[i].transferred * log[i].speed[2]
           /\ log[i].pct # <<>> => log[i].pct[2] # 0

C14_Witness ==
    /\ Len(log) = 2
    /\ tracker.total_size = 0
    /\ log[1].at = tracker.start_time /\ log[1].transferred > 0 /\ log[1].speed[1] = 0
    /\ log[2].at > tracker.start_time /\ log[2].speed = <<log[2].transferred, log[2].at - tracker.start_time>>

\* ------------------------------------------------------ checksum claims

RECURSIVE NonEmpty(_)
\* the non-empty chunks of a sequence of reads
NonEmpty(reads) ==
    IF reads = <<>> THEN <<>>
    ELSE IF Head(reads) = <<>> THEN NonEmpty(Tail(reads))
    ELSE <<Head(reads)>> \o NonEmpty(Tail(reads))

\* all but the last element
Front(q) == IF q = <<>> THEN <<>> ELSE SubSeq(q, 1, Len(q) - 1)

\* the result the bytes data call for
ResultOf(data) ==
    [md5 |-> DigestOf("md5", data), sha1 |-> DigestOf("sha1", data),
     sha256 |-> DigestOf("sha256", data), sha512 |-> DigestOf("sha512", data),
     size |-> Len(data)]

\* pcs inside a loop iteration, after the read and before the next one
MidIteration == {"size", "md5", "sha1", "sha256", "sha512", "report"}

Feeds == <<ck.md5.fed, ck.sha1.fed, ck.sha256.fed, ck.sha512.fed>>

\* C15: every non-empty chunk read is fed exactly once to each of the four
\* hash objects before the next read: between iterations and at the end all
\* four have received the chunks read, in order, and size is the sum of their
\* lengths; inside an iteration each has either all of them or all but the
\* chunk in hand.
C15_SameChunksToAll ==
    LET fed == NonEmpty(ck.reads)
    IN /\ ck.pc \notin MidIteration =>
            /\ \A k \in 1..4 : Feeds[k] = fed
            /\ ck.size = Len(Concat(fed))
       /\ ck.pc \in MidIteration =>
            /\ \A k \in 1..4 : Feeds[k] \in {fed, Front(fed)}
            /\ \A k \in 1..3 : Feeds[k + 1] = fed => Feeds[k] = fed
       /\ ck.pc = "returned" => ck.result.size = Len(Concat(fed))

C15_Witness ==
    /\ ck.pc = "returned"
    /\ ck.reads = <<<<1, 2>>, <<3>>, <<>>>>
    /\ ck.sha512.fed = <<<<1, 2>>, <<3>>>>
    /\ ck.result.size = 3

\* C16: whatever the chunks the reads of a call return, the call's result is
\* the four digests and the length of the whole input.
C16_ChunkInvariance ==
    \A i \in 1..Len(ck.results) : ck.results[i].result = ResultOf(ck.content)

\* two calls that read the same three bytes in different chunks
C16_Witness ==
    /\ Len(ck.results) = 2
    /\ ck.results[1].reads = <<<<1>>, <<2, 3>>, <<>>>>
    /\ ck.results[2].reads = <<<<1, 2>>, <<3>>, <<>>>>
    /\ ck.results[1].result = ck.results[2].result

\* C17: two calls of compute_checksums_from_file_object over streams holding
\* the same bytes return equal results.
C17_Deterministic ==
    \A i, j \in 1..Len(ck.results) :
        (/\ ck.results[i].api = "compute_checksums_from_file_object"
         /\ ck.results[j].api = "compute_checksums_from_file_object")
            => ck.results[i].result = ck.results[j].result

C17_Witness ==
    /\ Len(ck.results) = 2
    /\ Len(ck.content) = 2
    /\ ck.results[1].api = "compute_checksums_from_file_object"
    /\ ck.results[2].api = "compute_checksums_from_file_object"
    /\ ck.results[2].result.size = 2

\* C18: on a zero-byte input the call reads once, feeds nothing to any hash
\* object and returns size 0 with the digests of the empty input.
C18_EmptyInput ==
    ck.content = <<>> =>
        /\ ck.pc \notin MidIteration
        /\ \A k \in 1..4 : Feeds[k] = <<>>
        /\ Len(ck.reads) <= 1
        /\ ck.pc = "returned" =>
              /\ ck.reads = <<<<>>>>
              /\ ck.error = ""
              /\ ck.result = [md5 |-> DigestOf("md5", <<>>), sha1 |-> DigestOf("sha1", <<>>),
                              sha256 |-> DigestOf("sha256", <<>>),
                              sha512 |-> DigestOf("sha512", <<>>), size |-> 0]

C18_Witness ==
    /\ ck.content = <<>>
    /\ ck.api = "compute_checksums"
    /\ ck.pc = "returned"
    /\ ck.result.size = 0

\* C19: once a read has failed the call returns no ChecksumResult and reads
\* or feeds nothing more: it ends by raising.
C19_ReadErrorAborts ==
    [][/\ ck'.error # "" => ck'.result = NoResult
       /\ (ck.error # "" /\ ck'.calls = ck.calls) =>
            /\ ck'.error = ck.error
            /\ ck'.reads = ck.reads
            /\ ck'.results = ck.results
            /\ <<ck'.md5, ck'.sha1, ck'.sha256, ck'.sha512, ck'.size>>
                  = <<ck.md5, ck.sha1, ck.sha256, ck.sha512, ck.size>>
            /\ ck'.pc = "raised"]_vars

\* the second read failed, after a first chunk was hashed
C19_Witness ==
    /\ ck.api = "compute_checksums_from_file_object"
    /\ ck.pc = "raised"
    /\ ck.error = "OSError"
    /\ ck.reads = <<<<1, 2>>>>
    /\ ck.md5.fed = <<<<1, 2>>>>
    /\ ck.result = NoResult
    /\ ck.results = <<>>

\* C20: when compute_checksums has returned or raised, the handle it opened
\* is closed; it opens at most one, and none when the path does not exist.
C20_HandleReleased ==
    /\ ck.opens <= 1
    /\ ck.pc \in {"returned", "raised"} => ck.handle # "open"
    /\ (ck.pc \in {"returned", "raised"} /\ ck.opens = 1) => ck.handle = "closed"
    /\ ck.error = "FileNotFoundError" => (ck.opens = 0 /\ ck.handle = "none" /\ ck.pc = "raised")

\* a read error mid-stream, after the handle was opened
C20_Witness ==
    /\ ck.api = "compute_checksums"
    /\ ck.pc = "raised"
    /\ ck.error = "OSError"
    /\ ck.opens = 1
    /\ ck.handle = "closed"
    /\ Len(ck.reads) = 1

\* the results compute_checksums has returned, called directly or by the
\* worker thread
SyncResults == {ck.results[j].result : j \in {j \in 1..Len(ck.results) : ck.results[j].api = "compute_checksums"}}

\* C21: compute_checksums_async resumes its caller only once the worker
\* thread's compute_checksums has returned or raised, and delivers that
\* call's outcome: the same ChecksumResult that compute_checksums returns for
\* the file, or the same error.
C21_AsyncSameAsSync ==
    [][(ck.caller = "awaiting" /\ ck'.caller = "none") =>
         LET outcome == ck'.delivered
         IN /\ ck.api = "compute_checksums"
            /\ ck.pc \in {"returned", "raised"}
            /\ ck'.pc = ck.pc
            /\ outcome = [result |-> ck.result, error |-> ck.error]
            /\ ck.pc = "raised" => (outcome.result = NoResult /\ outcome.error # "")
            /\ ck.pc = "returned" =>
                  /\ outcome.error = ""
                  /\ outcome.result = ResultOf(ck.content)
                  /\ SyncResults = {outcome.result}]_vars

\* a direct call, then a call through the worker thread, on three bytes
C21_Witness ==
    /\ Len(ck.content) = 3
    /\ Len(ck.results) = 2
    /\ ck.caller = "none"
    /\ ck.delivered # NoResult
    /\ ck.delivered.result = ck.results[1].result
    /\ ck.delivered.result.size = 3

\* ------------------------------------------------------ transfer claims

Downloads == {"download_file", "async_download_file"}

Uploads == {"upload_file", "async_upload_file"}

C23_ProbeFailureSwallowed ==
    xfer.probe_failed =>
        /\ api \in Downloads
        /\ xfer.probes = 1
        /\ xfer.backend_calls = 1
        /\ Constructed
        /\ tracker.total_size = None
        /\ \A i \in Lines : log[i].total = None /\ log[i].pct_text = None
        /\ xfer.error \in {"", "DownloadError"}
        /\ xfer.error # "" => phase = "raised"

\* the probe failed, the download went through: a line by a signal and the
\* line of finish()
C23_Witness ==
    /\ api = "async_download_file"
    /\ xfer.probe_failed
    /\ phase = "returned"
    /\ Len(signals) = 1
    /\ Len(log) = 2
    /\ log[1].total = None
    /\ log[2].total = None

\* ------------------------------------------------ _format_bytes claim

\* the byte count with the given low digits
Num(low) == [i \in 1..MaxDigits |-> IF i <= Len(low) THEN low[i] ELSE 0]

\* the index of the highest non-zero digit of n, 0 for n = 0
Top(n) == IF NonZero(n) = {} THEN 0 ELSE CHOOSE i \in NonZero(n) : \A j \in NonZero(n) : j <= i

\* the smallest k with n / 1024^k < 1024, capped at 5
UnitIndex(n) == IF Top(n) <= 1 THEN 0 ELSE IF Top(n) >= 6 THEN 5 ELSE Top(n) - 1

\* C24: _format_bytes(n) names the unit of index k, the smallest k with
\* n / 1024^k < 1024, capped at PB, and prints n / 1024^k to two decimals:
\* the printed number is within half a hundredth of it (checked exactly below
\* 1024^2, and against the leading fraction digit above).  0 gives 0.00 B,
\* 1024 gives 1.00 KB, 1536 gives 1.50 KB, 1024^4 gives 1.00 TB, and every
\* n >= 1024^5 is printed in PB.
C24_FormatBytes ==
    fmt.text # <<>> =>
        LET n == fmt.size
            k == UnitIndex(n)
            t == fmt.text
            r == 100 * (t.whole - Whole(n, k + 1)) + t.hundredths
        IN /\ t.unit = Units[k + 1]
           /\ t.hundredths \in 0..99
           /\ k < 5 => t.whole <= Kilo
           /\ r \in 0..100
           /\ k = 0 => r = 0
           /\ k >= 1 => (Kilo * (r - 1) <= 100 * (n[k] + 1) /\ Kilo * (r + 1) >= 100 * n[k])
           /\ Top(n) <= 2 =>
                 LET v == n[1] + Kilo * n[2]
                     p == 100 * t.whole + t.hundredths
                     d == IF k = 0 THEN 1 ELSE Kilo
                     e == 2 * p * d - 200 * v
                 IN e <= d /\ -e <= d
           /\ n = Num(<<>>) => t = [whole |-> 0, hundredths |-> 0, unit |-> "B"]
           /\ n = Num(<<0, 1>>) => t = [whole |-> 1, hundredths |-> 0, unit |-> "KB"]
           /\ n = Num(<<512, 1>>) => t = [whole |-> 1, hundredths |-> 50, unit |-> "KB"]
           /\ n = Num(<<0, 0, 0, 0, 1>>) => t = [whole |-> 1, hundredths |-> 0, unit |-> "TB"]
           /\ (\E i \in 6..MaxDigits : n[i] # 0) => t.unit = "PB"

\* 1024^6 + 1024^5 is printed as 1025.00 PB
C24_Witness ==
    /\ fmt.size = Num(<<0, 0, 0, 0, 0, 1, 1>>)
    /\ fmt.text = [whole |-> 1025, hundredths |-> 0, unit |-> "PB"]

\* ------------------------------------------------- log rate under threads

\* the lines emitted by signals: in a transfer the line of finish() is the last
SignalLines == 1..(Len(log) - finishes)

\* C25: with an interval I > 0, any two log lines emitted by signals of the
\* same tracker are at least I apart in time, also when worker threads
\* deliver the signals concurrently.
C25_RateBounded ==
    (/\ api \in Uploads \cup Downloads
     /\ Constructed
     /\ tracker.progress_interval # None
     /\ tracker.progress_interval > 0) =>
        \A i, j \in SignalLines :
            i < j => Abs(log[j].at - log[i].at) >= tracker.progress_interval

\* ------------------------------------------------- equivalence claims

\* C26: an incremental tracker fed the deltas d1..dn and a cumulative tracker
\* fed their running totals have the same bytes_transferred after each
\* signal, the sum of the deltas so far, and pass the same values to the user
\* callback.
C26_ModesAgree ==
    pair.kind = "modes" =>
        /\ ~pair.left.tracker.cumulative
        /\ pair.right.tracker.cumulative
        /\ pair.left.tracker.bytes_transferred = Sum(pair.fed)
        /\ pair.right.tracker.bytes_transferred = Sum(pair.fed)
        /\ pair.left.cb_calls = pair.right.cb_calls
        /\ pair.left.tracker.callback => Len(pair.left.cb_calls) = Len(pair.fed)

\* deltas 2 and 0: both callbacks saw 2, 2
C26_Witness ==
    /\ pair.kind = "modes"
    /\ pair.left.tracker.cls = "async"
    /\ pair.fed = <<2, 0>>
    /\ pair.left.cb_calls = <<2, 2>>
    /\ pair.right.cb_calls = <<2, 2>>
    /\ pair.right.tracker.bytes_transferred = 2

\* the fields of a tracker other than its class
Fields(t) ==
    <<t.callback, t.bytes_transferred, t.total_size, t.progress_interval, t.operation,
      t.cumulative, t.last_log_time, t.start_time>>

\* C30: an _AsyncProgressCallback with cumulative = False and a
\* _ProgressCallback constructed alike and given the same signals, finish()
\* calls and clock readings have the same bytes_transferred and
\* last_log_time after every step, call the user callback with the same
\* values and emit the same lines; no step changes the cumulative flag of a
\* tracker.
C30_AsyncLikeSync ==
    [][/\ pair'.kind = "classes" =>
            /\ pair'.left.tracker.cls = "sync"
            /\ pair'.right.tracker.cls = "async"
            /\ Fields(pair'.left.tracker) = Fields(pair'.right.tracker)
            /\ pair'.left.cb_calls = pair'.right.cb_calls
            /\ pair'.left.log = pair'.right.log
       /\ pair.kind # "none" =>
            /\ pair'.left.tracker.cumulative = pair.left.tracker.cumulative
            /\ pair'.right.tracker.cumulative = pair.right.tracker.cumulative]_vars

\* two signals, the second one logged, then finish(): three callback values
\* apart, two lines
C30_Witness ==
    /\ pair.kind = "classes"
    /\ pair.left.tracker.progress_interval = 1
    /\ pair.fed = <<1, 2>>
    /\ pair.finishes = 1
    /\ pair.right.cb_calls = <<1, 3>>
    /\ Len(pair.right.log) = 2
    /\ pair.right.log[1].transferred = 3
    /\ pair.right.tracker.last_log_time = 1
    /\ pair.right.log[2].at = 1

\* ------------------------------------------------ read loop claims

Accumulators == <<ck.md5, ck.sha1, ck.sha256, ck.sha512, ck.size>>

\* C27: a progress report of the read loop leaves the hash objects and the
\* size as they are; it is made exactly when the total size is known and
\* non-zero and at least the report interval has passed since the previous
\* one, never by compute_checksums_from_file_object; and a call that returns
\* returns the digests and size of the input whatever was reported.
C27_ReportsChangeNothing ==
    [][/\ ck.pc = "report" =>
            LET due == Truthy(ck.total_size) /\ clock' - ck.last_log >= LogInterval
            IN /\ Accumulators' = Accumulators
               /\ due => /\ Len(ck'.reports) = Len(ck.reports) + 1
                         /\ Last(ck'.reports).at = clock'
                         /\ ck'.last_log = clock'
                         /\ ck.api = "compute_checksums"
               /\ ~due => /\ ck'.reports = ck.reports
                          /\ ck'.last_log = ck.last_log
       /\ (ck.pc # "report" /\ ck'.calls = ck.calls) => ck'.reports = ck.reports
       /\ ck'.api = "compute_checksums_from_file_object" => ck'.reports = <<>>
       /\ ck'.pc = "returned" => ck'.result = ResultOf(ck'.content)]_vars

\* compute_checksums reported in both iterations and returned the result
\* that compute_checksums_from_file_object, which reports nothing, returned
\* before
C27_Witness ==
    /\ ck.pc = "returned"
    /\ ck.api = "compute_checksums"
    /\ ck.reads = <<<<1>>, <<2>>, <<>>>>
    /\ Len(ck.reports) = 2
    /\ Len(ck.results) = 2
    /\ ck.results[1].api = "compute_checksums_from_file_object"
    /\ ck.results[1].result = ck.result

\* C28: the read loop terminates: from the loop head the call reaches the
\* zero-length read or an error, after the zero-length read it returns, and
\* once that read has been made the call reads nothing more and feeds
\* nothing more to the hash objects.
C28_LoopTerminates ==
    /\ (ck.pc = "read") ~> (ck.pc = "break" \/ ck.error # "")
    /\ (ck.pc = "break") ~> (ck.pc = "returned")
    /\ [][(/\ ck.reads # <<>>
           /\ Last(ck.reads) = <<>>
           /\ ck'.calls = ck.calls
           /\ ck'.pc # "to_thread") =>
             /\ ck'.reads = ck.reads
             /\ Accumulators' = Accumulators
             /\ ck'.pc \in {"break", "close", "result", "returned"}]_vars

\* three non-empty reads, then the zero-length one, and the call returned
C28_Witness ==
    /\ ck.pc = "returned"
    /\ ck.reads = <<<<1>>, <<2>>, <<3>>, <<>>>>
    /\ ck.result.size = 3

\* ------------------------------------------------ finish() in a transfer

InTransfer == api \in Uploads \cup Downloads

\* C29: in upload_file and download_file, sync and async, with a tracker
\* constructed, finish() is called exactly once and only when the backend
\* call has returned, so its line is the last line of the transfer, after
\* every line of a signal; when the backend call raises, finish() is not
\* called, no final line is emitted and the call raises UploadError or
\* DownloadError.
C29_FinishOnSuccessOnly ==
    [][InTransfer =>
        /\ FinishStep => /\ phase = "transferring" /\ phase' = "returned"
                         /\ Constructed
                         /\ finishes = 0
                         /\ signals' = signals
                         /\ Len(log') = Len(log) + 1
                         /\ Last(log').transferred = tracker.bytes_transferred
                         /\ \A i \in Lines : log'[i] = log[i] /\ log[i].at <= Last(log').at
        /\ (phase = "transferring" /\ phase' = "returned") =>
              finishes' = IF Constructed THEN 1 ELSE 0
        /\ (phase = "transferring" /\ phase' = "raised") =>
              /\ finishes' = 0
              /\ log' = log
              /\ xfer'.error = ErrorOf(api)
        /\ phase \in {"returned", "raised"} =>
              /\ log' = log
              /\ signals' = signals
              /\ finishes' = finishes
              /\ phase' = phase]_vars

\* an upload returned: one line from a signal, then the line of finish()
C29_Witness ==
    /\ api = "async_upload_file"
    /\ phase = "returned"
    /\ finishes = 1
    /\ Len(signals) = 2
    /\ Len(log) = 2
    /\ log[1].transferred = signals[1]
    /\ log[2].transferred = signals[1] + signals[2]
    /\ xfer.error = ""

====
